---- MODULE Spec2Model ----
(***************************************************************************)
(* Sparkle::Event / Sparkle::EventBinder (include/Sparkle/Event.h).        *)
(*                                                                         *)
(* The registry `Binds` maps a subscriber key (an object address, or the   *)
(* standalone sentinel) to a vector of lifecycle callbacks.  Raise walks   *)
(* the map and runs std::remove_if over every vector, the predicate being  *)
(* the lifecycle callback itself, so user code runs in the middle of the   *)
(* walk.  Raise is therefore modelled one predicate evaluation at a time.  *)
(*                                                                         *)
(* Objects are numbered in creation order; an object lives at an address   *)
(* and a weak_ptr names the object, not the address.  An event is used by  *)
(* one thread: while a Raise is running only its callbacks make steps.     *)
(***************************************************************************)
EXTENDS Integers, Sequences, FiniteSets, TLC

\* ---------------------------------------------------------------- bounds
MaxBinds  == 2      \* subscriptions made in one behaviour
MaxRaises == 2      \* Raise calls in one behaviour
MaxObjs   == 1      \* objects created in one behaviour
MaxReuse  == 1      \* objects created at the address of a destroyed one

\* ------------------------------------------------------------- constants
StandaloneCallbackKey == -1     \* reinterpret_cast<void *>(-1)

\* Addresses: MaxObjs objects never need more than MaxObjs of them.
Addrs == 1..MaxObjs
Keys  == Addrs \cup {StandaloneCallbackKey}
NoObj == 0
Null  == 0                      \* nullptr

\* Parameter kinds of Event<Args...>: a by-value type whose move is a copy
\* (int, float, an enum), a by-value type with a move constructor that empties
\* its source (std::vector, std::unique_ptr, std::string), a reference type.
ArgKinds == {"copy", "move", "ref"}

VARIABLES
    Binds,      \* EventBinder::Binds : key -> vector of lifecycle callbacks
    addr,       \* addr[o] : address of object o (objects are 1..Len(addr))
    alive,      \* objects not yet destroyed (a weak_ptr to o is expired iff o \notin alive)
    stack,      \* activation records of the Raise calls in progress
    raises,     \* number of Raise calls started
    argKind,    \* how the event's Args... are passed (fixed by the template arguments)
    count,      \* history: count[id] = times the user callback of BindOnce closure id ran
    log,        \* history: user callbacks run by the Raise in progress / just returned
    snap,       \* history: closures registered when that Raise started
    removed,    \* history: ids erased by Remove
    cleared,    \* history: number of closures made before the last RemoveAll
    last        \* history: the operation that made the last step, and its result

vars == <<Binds, addr, alive, stack, raises, argKind, count, log, snap, removed, cleared,
          last>>

\* ------------------------------------------------------------ data model

\* A lifecycle callback: the closure built by one of the EventBinder::Bind
\* overloads.  kind says which overload built it, once is bindOnce, obj is
\* the object the closure captured (weak) or was keyed by (raw).
Closure(id, kind, once, obj) ==
    [id |-> id, kind |-> kind, once |-> once, obj |-> obj]

\* The record `last` keeps of a step that returns nothing to the caller.
Step(op) == [op |-> op, key |-> 0, ret |-> TRUE, n |-> 0, again |-> FALSE]

\* A std::function that has been moved from by remove_if.
Empty == [id |-> 0, kind |-> "empty", once |-> FALSE, obj |-> NoObj]

EmptyMap == [k \in {} |-> <<>>]

Objs == 1..Len(addr)

\* A liveness test that always passes.
Expired_Never(o, alv) == FALSE

\* weak_ptr::expired / !weak_ptr::lock
Expired(o, alv) == o \notin alv

\* the callbacks held by the registry B, and their ids
Registered(B) == UNION {{B[k][i] : i \in 1..Len(B[k])} : k \in DOMAIN B} \ {Empty}

RegIds(B) == {c.id : c \in Registered(B)}

\* the id the next closure gets
NextId == Len(count) + 1

\* ids held under key k
KeyIds(B, k) == IF k \in DOMAIN B THEN {B[k][i].id : i \in 1..Len(B[k])} \ {0} ELSE {}

\* The process is running: no assertion has failed and no operation has had
\* undefined behaviour.
Running == last.op \notin {"Abort", "UseAfterFree", "InvalidIterator", "BadFunctionCall"}

Idle == stack = <<>> /\ Running

\* --------------------------------------------------------------- queries

\* Event::Size
Size == Cardinality(DOMAIN Binds)

RECURSIVE SumLen(_, _)
SumLen(B, ks) ==
    IF ks = {} THEN 0
    ELSE LET k == CHOOSE x \in ks : TRUE IN Len(B[k]) + SumLen(B, ks \ {k})

\* Event::CallbackCount
CallbackCount == SumLen(Binds, DOMAIN Binds)

\* EventBinder::IsBound(T*)
IsBound(t) == t \in DOMAIN Binds

\* A weak IsBound that looks the address up without locking the weak_ptr.
IsBoundWeak_NoLock(o) == IsBound(addr[o])

\* EventBinder::IsBound(std::weak_ptr<T>)
IsBoundWeak(o) == IF ~Expired(o, alive) THEN IsBound(addr[o]) ELSE FALSE

\* ------------------------------------------------------------ operations

\* InternalBind with the new callback put in front of the key's vector.
InternalBind_Front(B, bound, t) ==
    IF t \in DOMAIN B
    THEN [B EXCEPT ![t] = <<bound>> \o @]
    ELSE [k \in DOMAIN B \cup {t} |-> IF k = t THEN <<bound>> ELSE B[k]]

\* InternalBind that always takes the branch for a new key.
InternalBind_Replace(B, bound, t) ==
    [k \in DOMAIN B \cup {t} |-> IF k = t THEN <<bound>> ELSE B[k]]

\* EventBinder::InternalBind
InternalBind(B, bound, t) ==
    IF t \in DOMAIN B
    THEN [B EXCEPT ![t] = Append(@, bound)]
    ELSE [k \in DOMAIN B \cup {t} |-> IF k = t THEN <<bound>> ELSE B[k]]

\* What every successful bind does to the state.
Register(bound, t) ==
    /\ Binds' = InternalBind(Binds, bound, t)
    /\ count' = Append(count, 0)
    /\ last' = [op |-> "Bind", key |-> t, ret |-> TRUE, n |-> 1, again |-> FALSE]

\* The parts of the state no top-level call touches.
NoRaiseChange ==
    /\ log' = <<>>
    /\ snap' = {}
    /\ UNCHANGED <<stack, raises, argKind>>

CanBind == Idle /\ Len(count) < MaxBinds

\* Bind / BindOnce (Callback f, T* t) and (member function, T* t)
BindPtr(o, once) ==
    /\ CanBind
    /\ o \in alive
    /\ Register(Closure(NextId, "raw", once, o), addr[o])
    /\ NoRaiseChange
    /\ UNCHANGED <<addr, alive, removed, cleared>>

\* A null check that lets every pointer through.
NonNull_Off(t) == TRUE

\* the condition of assert(t != nullptr)
NonNull(t) == t # Null

\* Bind / BindOnce (Callback f, T* t) and (member function, T* t), t == nullptr:
\* the assert fails, its message is printed and abort() ends the process.
BindNull(once) ==
    /\ CanBind
    /\ IF NonNull(Null)
       THEN Register(Closure(NextId, "raw", once, NoObj), Null)
       ELSE /\ UNCHANGED <<Binds, count>>
            /\ last' = Step("Abort")
    /\ NoRaiseChange
    /\ UNCHANGED <<addr, alive, removed, cleared>>

\* A weak bind keyed by something other than the object's address (the
\* address of the control block, say).
BindWeak_OtherKey(o, once) ==
    /\ CanBind
    /\ o \in Objs
    /\ IF ~Expired(o, alive)
       THEN Register(Closure(NextId, "weak", once, o), addr[o] + MaxObjs)
       ELSE /\ UNCHANGED <<Binds, count>>
            /\ last' = [op |-> "Bind", key |-> 0, ret |-> FALSE, n |-> 0, again |-> FALSE]
    /\ NoRaiseChange
    /\ UNCHANGED <<addr, alive, removed, cleared>>

\* A weak bind that registers without locking the weak_ptr first.
BindWeak_NoLock(o, once) ==
    /\ CanBind
    /\ o \in Objs
    /\ Register(Closure(NextId, "weak", once, o), addr[o])
    /\ NoRaiseChange
    /\ UNCHANGED <<addr, alive, removed, cleared>>

\* Bind / BindOnce (Callback f, weak_ptr) and (member function, weak_ptr);
\* the shared_ptr overloads make a weak_ptr and call these.
BindWeak(o, once) ==
    /\ CanBind
    /\ o \in Objs
    /\ IF ~Expired(o, alive)
       THEN Register(Closure(NextId, "weak", once, o), addr[o])
       ELSE /\ UNCHANGED <<Binds, count>>
            /\ last' = [op |-> "Bind", key |-> 0, ret |-> FALSE, n |-> 0, again |-> FALSE]
    /\ NoRaiseChange
    /\ UNCHANGED <<addr, alive, removed, cleared>>

\* A bind of a free callback that gives every callback a key of its own.
BindFree_OwnKey(once) ==
    /\ CanBind
    /\ Register(Closure(NextId, "free", once, NoObj), StandaloneCallbackKey - NextId)
    /\ NoRaiseChange
    /\ UNCHANGED <<addr, alive, removed, cleared>>

\* Bind / BindOnce (Callback cb)
BindFree(once) ==
    /\ CanBind
    /\ Register(Closure(NextId, "free", once, NoObj),
                StandaloneCallbackKey)
    /\ NoRaiseChange
    /\ UNCHANGED <<addr, alive, removed, cleared>>

\* the map after Binds.erase(it)
EraseKey(B, t) == [k \in DOMAIN B \ {t} |-> B[k]]

\* Remove that reports success without erasing.
RemoveKey_NoErase(B, t) ==
    IF t \in DOMAIN B
    THEN [binds |-> B, removed |-> TRUE]
    ELSE [binds |-> B, removed |-> FALSE]

\* Remove that erases only the key's most recent callback.
RemoveKey_OnlyLast(B, t) ==
    IF t \in DOMAIN B
    THEN [binds |-> IF Len(B[t]) = 1 THEN EraseKey(B, t)
                    ELSE [B EXCEPT ![t] = SubSeq(@, 1, Len(@) - 1)],
          removed |-> TRUE]
    ELSE [binds |-> B, removed |-> FALSE]

\* Remove that empties the key's vector and leaves the key in the map.
RemoveKey_ClearVector(B, t) ==
    IF t \in DOMAIN B
    THEN [binds |-> [B EXCEPT ![t] = <<>>], removed |-> TRUE]
    ELSE [binds |-> B, removed |-> FALSE]

\* EventBinder::Remove(T*) : the registry afterwards and the returned flag
RemoveKey(B, t) ==
    IF t \in DOMAIN B
    THEN [binds |-> EraseKey(B, t), removed |-> TRUE]
    ELSE [binds |-> B, removed |-> FALSE]

DoRemove(t, opname) ==
    LET r == RemoveKey(Binds, t) IN
    /\ Binds' = r.binds
    /\ removed' = removed \cup KeyIds(Binds, t)
    /\ last' = [op |-> opname, key |-> t, ret |-> r.removed,
                n |-> Cardinality(KeyIds(Binds, t)),
                again |-> last.op = opname /\ last.key = t /\ last.ret]

\* Remove(T* t); Remove(std::shared_ptr<T>) calls it with ptr.get()
Remove(o) ==
    /\ Idle
    /\ o \in alive
    /\ DoRemove(addr[o], "Remove")
    /\ NoRaiseChange
    /\ UNCHANGED <<addr, alive, count, cleared>>

\* Remove(T* t), t == nullptr
RemoveNull ==
    /\ Idle
    /\ IF NonNull(Null)
       THEN DoRemove(Null, "Remove")
       ELSE /\ UNCHANGED <<Binds, removed>>
            /\ last' = Step("Abort")
    /\ NoRaiseChange
    /\ UNCHANGED <<addr, alive, count, cleared>>

\* A weak Remove that uses the address without locking the weak_ptr.
RemoveWeak_NoLock(o) ==
    /\ Idle
    /\ o \in Objs
    /\ DoRemove(addr[o], "RemoveWeak")
    /\ NoRaiseChange
    /\ UNCHANGED <<addr, alive, count, cleared>>

\* Remove(std::weak_ptr<T> ptr)
RemoveWeak(o) ==
    /\ Idle
    /\ o \in Objs
    /\ IF ~Expired(o, alive)
       THEN DoRemove(addr[o], "RemoveWeak")
       ELSE /\ UNCHANGED <<Binds, removed>>
            /\ last' = [op |-> "RemoveWeak", key |-> 0, ret |-> FALSE, n |-> 0,
                        again |-> FALSE]
    /\ NoRaiseChange
    /\ UNCHANGED <<addr, alive, count, cleared>>

\* A clear that spares the standalone callbacks.
Clear_KeepStandalone(B) == [k \in DOMAIN B \cap {StandaloneCallbackKey} |-> B[k]]

\* the map after Binds.clear()
Clear(B) == EmptyMap

\* EventBinder::RemoveAll
RemoveAll ==
    /\ Idle
    /\ Binds' = Clear(Binds)
    /\ cleared' = Len(count)
    /\ last' = [op |-> "RemoveAll", key |-> 0, ret |-> TRUE, n |-> CallbackCount,
                again |-> FALSE]
    /\ NoRaiseChange
    /\ UNCHANGED <<addr, alive, count, removed>>

\* ------------------------------------------------------------------ Raise

\* Lifecycle callbacks whose weak_ptr overloads return true when the object
\* is alive, whatever bindOnce says.
LifecycleCallback_WeakKeeps(cb, alv) ==
    IF cb.kind = "weak"
    THEN IF ~Expired(cb.obj, alv)
         THEN [called |-> TRUE, keep |-> TRUE]
         ELSE [called |-> FALSE, keep |-> FALSE]
    ELSE [called |-> TRUE, keep |-> ~cb.once]

\* Lifecycle callbacks that all ask to be removed, as if every bind were a
\* BindOnce.
LifecycleCallback_AllOnce(cb, alv) ==
    IF cb.kind = "weak"
    THEN IF ~Expired(cb.obj, alv)
         THEN [called |-> TRUE, keep |-> FALSE]
         ELSE [called |-> FALSE, keep |-> FALSE]
    ELSE [called |-> TRUE, keep |-> FALSE]

\* The result of running one lifecycle callback (the `bound` lambdas of the
\* Bind overloads): did it call the user callback, and what did it return.
LifecycleCallback(cb, alv) ==
    IF cb.kind = "weak"
    THEN IF ~Expired(cb.obj, alv)
         THEN [called |-> TRUE, keep |-> ~cb.once]
         ELSE [called |-> FALSE, keep |-> FALSE]
    ELSE [called |-> TRUE, keep |-> ~cb.once]

\* A remove_if that counts the kept elements without moving them down.
RemoveIfStep_NoShift(vec, rd, wr, keep) ==
    IF keep THEN [vec |-> vec, wr |-> wr + 1] ELSE [vec |-> vec, wr |-> wr]

\* One iteration of std::remove_if over vec: the element at rd has been
\* tested; a kept element is moved down to wr when the two differ.
RemoveIfStep(vec, rd, wr, keep) ==
    IF keep
    THEN [vec |-> IF wr # rd THEN [vec EXCEPT ![wr] = vec[rd], ![rd] = Empty] ELSE vec,
          wr |-> wr + 1]
    ELSE [vec |-> vec, wr |-> wr]

\* FinishKey without the erase of the tail remove_if left behind.
FinishKey_NoErase(B, k, vec, wr) == [B EXCEPT ![k] = vec]

\* FinishKey without the test for an empty vector.
FinishKey_KeepEmpty(B, k, vec, wr) == [B EXCEPT ![k] = SubSeq(vec, 1, wr - 1)]

\* functionVector.erase(new_end, end), then the test for an empty vector:
\* the registry once the walk over key k has finished with write index wr.
FinishKey(B, k, vec, wr) ==
    LET v == SubSeq(vec, 1, wr - 1) IN
    IF v = <<>> THEN EraseKey(B, k) ELSE [B EXCEPT ![k] = v]

\* Rest with the iterator advanced once more after `it = Binds.erase(it)`.
Rest_Skip(B, seen, k) ==
    LET r == DOMAIN B \ seen IN
    IF k \notin DOMAIN B /\ r # {} THEN r \ {CHOOSE x \in r : TRUE} ELSE r

\* The keys the map iterator can still reach after the walk over key k:
\* `it = Binds.erase(it)` and `++it` both step to an unvisited key.
Rest(B, seen, k) == DOMAIN B \ seen

\* arg is what the activation's parameter `args` holds: the value the caller
\* passed ("v"), or what a move left behind ("moved").
\* held is 0, or, while the callback at rd is itself running a Raise, the
\* length of the vector up to the end iterator remove_if holds.
Frame(k, visited, arg) ==
    [it |-> k, rd |-> 1, wr |-> 1, visited |-> visited, arg |-> arg, held |-> 0]

\* `args` after cb(std::forward<Args>(args)...): std::function::operator()
\* takes Args... by value, so a by-value Args is moved into that parameter.
Forward(kind, arg) == IF kind = "move" THEN "moved" ELSE arg

\* Objects whose raw-pointer subscriptions are registered: the caller must
\* keep them alive for as long as the event can call them.
Pinned(B) ==
    {o \in Objs : \E k \in DOMAIN B : \E i \in 1..Len(B[k]) :
                     B[k][i].kind = "raw" /\ B[k][i].obj = o}

\* What a user callback may do while it runs: nothing, or drop the last
\* owner of an object.
Effects == {NoObj} \cup (alive \ Pinned(Binds))

\* Event::Raise, up to the first predicate evaluation
Raise ==
    /\ Idle
    /\ raises < MaxRaises
    /\ raises' = raises + 1
    /\ log' = <<>>
    /\ snap' = Registered(Binds)
    /\ IF DOMAIN Binds = {}
       THEN /\ stack' = stack
            /\ last' = Step("Raise")
       ELSE /\ \E k \in DOMAIN Binds : stack' = <<Frame(k, {}, "v")>>
            /\ last' = Step("Invoke")
    /\ UNCHANGED <<Binds, addr, alive, argKind, count, removed, cleared>>

\* Event::Raise from the return of the lifecycle callback at rd, which gave
\* res, up to the next predicate evaluation (or up to the return of Raise).
\* B0 and cnt are the registry and the counters as the user callback left
\* them, kill is the object it destroyed, skip the keys it inserted behind
\* the iterator.
Walk(B0, cnt, kill, skip, res) ==
    LET fr   == stack[Len(stack)]
        cb   == Binds[fr.it][fr.rd]
        vec  == B0[fr.it]
        st   == RemoveIfStep(vec, fr.rd, fr.wr, res.keep)
        more == fr.rd < Len(vec)
        B1   == IF more THEN [B0 EXCEPT ![fr.it] = st.vec]
                ELSE FinishKey(B0, fr.it, st.vec, st.wr)
        seen == fr.visited \cup {fr.it} \cup skip
        rest == Rest(B1, seen, fr.it)
        arg1 == Forward(argKind, fr.arg)
    IN /\ Binds' = B1
       /\ alive' = alive \ {kill}
       /\ IF res.called
          THEN /\ log' = Append(log, [id |-> cb.id, key |-> fr.it, kind |-> cb.kind,
                                      live |-> cb.obj \in alive \cup {NoObj},
                                      kill |-> kill, arg |-> fr.arg, nest |-> FALSE])
               /\ count' = IF cb.once THEN [cnt EXCEPT ![cb.id] = @ + 1] ELSE cnt
          ELSE /\ log' = log
               /\ count' = cnt
       /\ IF more
          THEN /\ stack' = [stack EXCEPT ![Len(stack)] =
                                [fr EXCEPT !.rd = fr.rd + 1, !.wr = st.wr,
                                           !.visited = fr.visited \cup skip,
                                           !.arg = arg1, !.held = 0]]
               /\ last' = Step("Invoke")
          ELSE IF rest # {}
               THEN /\ \E k \in rest :
                         stack' = [stack EXCEPT ![Len(stack)] = Frame(k, seen, arg1)]
                    /\ last' = Step("Invoke")
               ELSE /\ stack' = SubSeq(stack, 1, Len(stack) - 1)
                    /\ last' = Step("Raise")

\* Event::Raise, one predicate evaluation `!cb(args...)` of remove_if and
\* everything up to the next one (or up to the return).
Visit(B0, cnt, kill, skip) ==
    Walk(B0, cnt, kill, skip,
         LifecycleCallback(Binds[stack[Len(stack)].it][stack[Len(stack)].rd], alive))

\* a Raise is about to evaluate the callback its frame points at
InCallback ==
    /\ stack # <<>>
    /\ Running
    /\ stack[Len(stack)].held = 0
    /\ stack[Len(stack)].rd <= Len(Binds[stack[Len(stack)].it])

\* The operation has undefined behaviour, or throws out of Raise: nothing
\* more is said about the run, which stops in a state that names what went
\* wrong.
Undefined(what) ==
    /\ last' = Step(what)
    /\ UNCHANGED <<stack, log, alive>>

\* The predicate evaluation of a callback that leaves the event alone.  A
\* std::function remove_if has moved from is empty: calling it throws
\* std::bad_function_call out of Raise.
Invoke ==
    /\ InCallback
    /\ LET fr  == stack[Len(stack)]
           res == LifecycleCallback(Binds[fr.it][fr.rd], alive)
       IN IF Binds[fr.it][fr.rd] = Empty
          THEN /\ UNCHANGED <<Binds, count>>
               /\ Undefined("BadFunctionCall")
          ELSE \E kill \in (IF res.called THEN Effects ELSE {NoObj}) :
                  Visit(Binds, count, kill, {})
    /\ UNCHANGED <<addr, raises, argKind, snap, removed, cleared>>

\* ------------------------------------------- callbacks that use the event

\* the user callback of the closure being evaluated is called
UserRuns ==
    /\ InCallback
    /\ Binds[stack[Len(stack)].it][stack[Len(stack)].rd] # Empty
    /\ LifecycleCallback(Binds[stack[Len(stack)].it][stack[Len(stack)].rd], alive).called

\* A user callback calls Remove(T*) / Remove(weak_ptr) for the live object o.
\* Under another key Binds.erase only drops that node.  Under the key being
\* walked it destroys the vector remove_if is iterating and the closure that
\* is running: every later step of Raise reads freed memory.
InvokeRemove(o) ==
    /\ UserRuns
    /\ o \in alive
    /\ removed' = removed \cup KeyIds(Binds, addr[o])
    /\ IF addr[o] = stack[Len(stack)].it
       THEN /\ Binds' = RemoveKey(Binds, addr[o]).binds
            /\ count' = count
            /\ Undefined("UseAfterFree")
       ELSE Visit(RemoveKey(Binds, addr[o]).binds, count, NoObj, {})
    /\ UNCHANGED <<addr, raises, argKind, snap, cleared>>

\* A user callback calls RemoveAll: Binds.clear() destroys every node, the
\* one being walked included.
InvokeRemoveAll ==
    /\ UserRuns
    /\ Binds' = Clear(Binds)
    /\ cleared' = Len(count)
    /\ count' = count
    /\ Undefined("UseAfterFree")
    /\ UNCHANGED <<addr, raises, argKind, snap, removed>>

\* what a callback can bind: a free function, or a live object (weak_ptr)
Bindable == {[kind |-> "free", obj |-> NoObj]} \cup {[kind |-> "weak", obj |-> o] : o \in alive}

\* A user callback calls Bind / BindOnce.  push_back on the vector being
\* walked invalidates the iterators remove_if holds (its `last` always, all
\* of them when the vector grows).  push_back on another vector is harmless.
\* Inserting a new key invalidates the map iterator `it` when the table is
\* rehashed; when it is not, the new node lands before or after `it`.
InvokeBind(b, once) ==
    /\ UserRuns
    /\ Len(count) < MaxBinds
    /\ b \in Bindable
    /\ LET c  == Closure(NextId, b.kind, once, b.obj)
           t  == IF b.kind = "free" THEN StandaloneCallbackKey ELSE addr[b.obj]
           B0 == InternalBind(Binds, c, t)
           c0 == Append(count, 0)
       IN IF t = stack[Len(stack)].it
          THEN /\ Binds' = B0
               /\ count' = c0
               /\ Undefined("InvalidIterator")
          ELSE IF t \in DOMAIN Binds
               THEN Visit(B0, c0, NoObj, {})
               ELSE \/ /\ Binds' = B0
                       /\ count' = c0
                       /\ Undefined("InvalidIterator")
                    \/ \E skip \in {{}, {t}} : Visit(B0, c0, NoObj, skip)
    /\ UNCHANGED <<addr, raises, argKind, snap, removed, cleared>>

\* A user callback calls Raise on the event that is calling it.  The inner
\* Raise walks the whole map, the vector the outer remove_if is in the middle
\* of included, with whatever that remove_if has left in its slots.
InvokeRaise ==
    /\ UserRuns
    /\ raises < MaxRaises
    /\ raises' = raises + 1
    /\ LET fr == stack[Len(stack)]
           cb == Binds[fr.it][fr.rd]
       IN /\ log' = Append(log, [id |-> cb.id, key |-> fr.it, kind |-> cb.kind,
                                 live |-> cb.obj \in alive \cup {NoObj},
                                 kill |-> NoObj, arg |-> fr.arg, nest |-> TRUE])
          /\ count' = IF cb.once THEN [count EXCEPT ![cb.id] = @ + 1] ELSE count
          /\ \E k \in DOMAIN Binds :
                stack' = Append([stack EXCEPT ![Len(stack)] =
                                     [fr EXCEPT !.held = Len(Binds[fr.it])]],
                                Frame(k, {}, "v"))
    /\ last' = Step("Invoke")
    /\ UNCHANGED <<Binds, addr, alive, argKind, snap, removed, cleared>>

\* The inner Raise has returned and the user callback that called it returns
\* to the outer remove_if.  If the inner Raise erased the key, the vector is
\* gone; if it erased elements, the iterators remove_if holds are invalid.
\* Otherwise the lifecycle callback returns !bindOnce and the walk goes on.
Resume ==
    /\ stack # <<>>
    /\ Running
    /\ stack[Len(stack)].held > 0
    /\ LET fr == stack[Len(stack)] IN
       IF fr.it \notin DOMAIN Binds
       THEN /\ UNCHANGED <<Binds, count>>
            /\ Undefined("UseAfterFree")
       ELSE IF Len(Binds[fr.it]) # fr.held
            THEN /\ UNCHANGED <<Binds, count>>
                 /\ Undefined("InvalidIterator")
            ELSE Walk(Binds, count, NoObj, {},
                      [called |-> FALSE, keep |-> ~Binds[fr.it][fr.rd].once])
    /\ UNCHANGED <<addr, raises, argKind, snap, removed, cleared>>

\* ----------------------------------------------------------- query calls

\* What a call of a query does to the state: nothing but report.
Report(op, key, ret, n) ==
    /\ last' = [op |-> op, key |-> key, ret |-> ret, n |-> n, again |-> FALSE]
    /\ NoRaiseChange
    /\ UNCHANGED <<Binds, addr, alive, count, removed, cleared>>

\* e.Size()
CallSize == Idle /\ Report("Size", 0, TRUE, Size)

\* e.CallbackCount()
CallCallbackCount == Idle /\ Report("CallbackCount", 0, TRUE, CallbackCount)

\* e.GetBinder().IsBound(T* t)
CallIsBound(o) ==
    /\ Idle
    /\ o \in alive
    /\ Report("IsBound", addr[o], IsBound(addr[o]), 0)

\* An IsBound that throws away the expired closures it comes across.
CallIsBoundWeak_Prune(o) ==
    /\ Idle
    /\ o \in Objs
    /\ last' = [op |-> "IsBoundWeak", key |-> addr[o], ret |-> IsBoundWeak(o), n |-> 0,
                again |-> FALSE]
    /\ Binds' = IF Expired(o, alive) THEN EraseKey(Binds, addr[o]) ELSE Binds
    /\ NoRaiseChange
    /\ UNCHANGED <<addr, alive, count, removed, cleared>>

\* e.GetBinder().IsBound(std::weak_ptr<T>) and IsBound(std::shared_ptr<T>)
CallIsBoundWeak(o) ==
    /\ Idle
    /\ o \in Objs
    /\ Report("IsBoundWeak", addr[o], IsBoundWeak(o), 0)

\* ------------------------------------------------------------ environment

\* the addresses handed out so far
Used == {addr[o] : o \in Objs}

\* An object is constructed (std::make_shared, or a local) at a free address:
\* the address of a destroyed object, or one never used before (addresses are
\* interchangeable, so the next unused one stands for all of them).
NewObject(a) ==
    /\ Idle
    /\ Len(addr) < MaxObjs
    /\ \A o \in alive : addr[o] # a
    /\ a \in Used \cup {Cardinality(Used) + 1}
    /\ addr' = Append(addr, a)
    /\ alive' = alive \cup {Len(addr) + 1}
    /\ last' = Step("Object")
    /\ NoRaiseChange
    /\ UNCHANGED <<Binds, count, removed, cleared>>

\* The allocator hands the address of a destroyed object to a new object.
Reallocate(a) ==
    /\ Idle
    /\ Len(addr) - Cardinality(Used) < MaxReuse
    /\ a \in Used
    /\ \A o \in alive : addr[o] # a
    /\ addr' = Append(addr, a)
    /\ alive' = alive \cup {Len(addr) + 1}
    /\ last' = Step("Object")
    /\ NoRaiseChange
    /\ UNCHANGED <<Binds, count, removed, cleared>>

\* The last owner of an object goes away outside of any Raise.
DestroyObject(o) ==
    /\ Idle
    /\ o \in alive \ Pinned(Binds)
    /\ alive' = alive \ {o}
    /\ last' = Step("Object")
    /\ NoRaiseChange
    /\ UNCHANGED <<Binds, addr, count, removed, cleared>>

\* ---------------------------------------------------------- specification

\* The state after `Event<Args...> e{"name"};`
Constructed ==
    /\ Binds = EmptyMap
    /\ addr = <<>>
    /\ alive = {}
    /\ stack = <<>>
    /\ raises = 0
    /\ count = <<>>
    /\ log = <<>>
    /\ snap = {}
    /\ removed = {}
    /\ cleared = 0
    /\ last = Step("Init")

\* An event whose arguments are cheap values, as in Event<>, Event<int>.
Init == Constructed /\ argKind = "copy"

\* An event of any parameter kind.
InitArgs == Constructed /\ argKind \in ArgKinds

Next ==
    \/ \E a \in Addrs : NewObject(a)
    \/ \E o \in Objs : DestroyObject(o)
    \/ \E o \in Objs, once \in BOOLEAN : BindPtr(o, once)
    \/ \E o \in Objs, once \in BOOLEAN : BindWeak(o, once)
    \/ \E once \in BOOLEAN : BindNull(once)
    \/ RemoveNull
    \/ \E once \in BOOLEAN : BindFree(once)
    \/ \E o \in Objs : Remove(o)
    \/ \E o \in Objs : RemoveWeak(o)
    \/ RemoveAll
    \/ CallSize
    \/ CallCallbackCount
    \/ \E o \in Objs : CallIsBound(o)
    \/ \E o \in Objs : CallIsBoundWeak(o)
    \/ Raise
    \/ Invoke

Spec == Init /\ [][Next]_vars

SpecArgs == InitArgs /\ [][Next]_vars

\* The event used by callbacks that call back into it while it is raised.
NextReentrant ==
    \/ Next
    \/ \E o \in Objs : InvokeRemove(o)
    \/ InvokeRemoveAll
    \/ \E b \in Bindable, once \in BOOLEAN : InvokeBind(b, once)

SpecReentrant == Init /\ [][NextReentrant]_vars

\* The event used by callbacks that raise it again while it is raised.
NextNested ==
    \/ Next
    \/ InvokeRaise
    \/ Resume

SpecNested == Init /\ [][NextNested]_vars

\* The event in a program whose allocator reuses the addresses of destroyed
\* objects.
NextReuse ==
    \/ Next
    \/ \E a \in Addrs : Reallocate(a)

SpecReuse == Init /\ [][NextReuse]_vars

TypeOK ==
    /\ DOMAIN Binds \subseteq Keys
    /\ alive \subseteq Objs
    /\ Len(stack) <= 1
    /\ raises \in 0..MaxRaises
    /\ Len(count) <= MaxBinds

\* ------------------------------------------------------------ properties

\* the key a closure is registered under
KeyOf(c) == IF c.kind = "free" THEN StandaloneCallbackKey ELSE addr[c.obj]

\* times the user callback of closure id ran in the Raise the log is about
Invoked(id) == Cardinality({i \in 1..Len(log) : log[i].id = id})

\* objects destroyed by a user callback of that Raise
KilledInRaise == {log[i].kill : i \in 1..Len(log)} \ {NoObj}

\* a Raise has just returned to its caller
Returned == Idle /\ last.op = "Raise"

\* a weak closure whose object was gone before the Raise started
DeadAtStart(c) == c.kind = "weak" /\ c.obj \notin alive /\ c.obj \notin KilledInRaise

\* C1 -- fan-out delivery: when a Raise returns, every closure that was
\* registered when it started and whose liveness check passes (raw-pointer
\* and object-less closures, and weak closures whose object is alive) has had
\* its user callback run exactly once in that Raise; nothing ran twice and
\* nothing ran that was not registered at the start.
C1_FanOut ==
    Returned =>
        /\ \A c \in snap :
              (c.kind \in {"raw", "free"} \/ c.obj \in alive) => Invoked(c.id) = 1
        /\ \A c \in snap : Invoked(c.id) <= 1
        /\ \A i \in 1..Len(log) : log[i].id \in {c.id : c \in snap}

C1_Witness ==
    /\ Returned
    /\ Len(log) = 2
    /\ Cardinality({log[i].key : i \in 1..Len(log)}) >= 2
    /\ \E c \in snap : c.kind = "weak" /\ c.obj \in alive
    /\ \E c \in snap : c.kind = "free"

\* C2 -- ordering: the user callbacks a Raise runs under one key run in the
\* order in which they were bound (ids are given in bind order).
C2_Ordering ==
    \A i, j \in 1..Len(log) :
        (i < j /\ log[i].key = log[j].key) => log[i].id < log[j].id

C2_Witness ==
    /\ Returned
    /\ raises = 2
    /\ Len(log) >= 2
    /\ log[1].key = log[2].key

\* C3 -- once semantics: the user callback of a BindOnce closure never runs
\* more than once; when the Raise it was registered for returns (its object
\* still alive, for a weak one) it has run exactly once, in that Raise, and
\* is no longer registered.
C3_Once ==
    /\ \A id \in 1..Len(count) : count[id] <= 1
    /\ Returned =>
          \A c \in snap :
              (c.once /\ (c.kind = "weak" => c.obj \in alive)) =>
                  /\ count[c.id] = 1
                  /\ Invoked(c.id) = 1
                  /\ c.id \notin RegIds(Binds)

C3_Witness ==
    /\ Returned
    /\ raises = 2
    /\ Len(log) >= 1
    /\ \E id \in 1..Len(count) : count[id] = 1 /\ id \notin {c.id : c \in snap}
    /\ \E id \in 1..Len(count) : count[id] = 1 /\ id \in {c.id : c \in snap}

\* C4 -- weak-reference eviction: a weak closure whose object was destroyed
\* before a Raise started is not run by that Raise and is gone when it
\* returns; IsBound through the weak reference is false, a key that held only
\* such closures is no longer bound, and if there was nothing else Size is 0.
C4_WeakEviction ==
    Returned =>
        /\ \A c \in snap :
              DeadAtStart(c) =>
                  /\ Invoked(c.id) = 0
                  /\ c.id \notin RegIds(Binds)
                  /\ ~IsBoundWeak(c.obj)
        /\ \A k \in Keys :
              (/\ \E c \in snap : KeyOf(c) = k
               /\ \A c \in snap : KeyOf(c) = k => DeadAtStart(c)) => ~IsBound(k)
        /\ (\A c \in snap : DeadAtStart(c)) => Size = 0

C4_Witness ==
    /\ Returned
    /\ Cardinality(snap) >= 2
    /\ \A c \in snap : DeadAtStart(c)
    /\ Size = 0

\* C5 -- test-then-use: the user callback of a weak closure never runs while
\* its object is not alive; a weak closure whose object an earlier callback
\* of the same Raise destroyed is skipped and is gone when that Raise returns.
C5_TestThenUse ==
    /\ \A i \in 1..Len(log) : log[i].kind = "weak" => log[i].live
    /\ Returned =>
          \A c \in snap :
              (c.kind = "weak" /\ c.obj \in KilledInRaise /\ Invoked(c.id) = 0) =>
                  c.id \notin RegIds(Binds)

C5_Witness ==
    /\ Returned
    /\ \E c \in snap : c.kind = "weak" /\ c.obj \in KilledInRaise /\ Invoked(c.id) = 0
    /\ \E c \in snap : c.kind = "weak" /\ c.obj \in KilledInRaise /\ Invoked(c.id) = 1

\* C6 -- registry invariant: whenever no operation is running, every key in
\* the map has a non-empty vector, and every key that has a registered
\* closure is in the map.
C6_RegistryInvariant ==
    Idle =>
        /\ \A k \in DOMAIN Binds : Binds[k] # <<>>
        /\ DOMAIN Binds = {KeyOf(c) : c \in Registered(Binds)}

C6_Witness ==
    /\ Returned
    /\ \E c \in snap : KeyOf(c) \notin DOMAIN Binds
    /\ \E c \in snap : KeyOf(c) \in DOMAIN Binds

\* C7 -- count invariants: CallbackCount() >= Size() >= 0 in every state;
\* between operations Size() is the number of distinct keys that have a
\* registered closure and CallbackCount() is the number of registered closures.
C7_CountInvariants ==
    /\ CallbackCount >= Size
    /\ Size >= 0
    /\ Idle =>
          /\ Size = Cardinality({KeyOf(c) : c \in Registered(Binds)})
          /\ CallbackCount = Cardinality(Registered(Binds))

C7_Witness ==
    /\ Idle
    /\ Size = 1
    /\ CallbackCount = 2
    /\ raises >= 1

\* C8 -- idempotent unsubscribe: Remove(T*) returns true exactly when the
\* key was bound, afterwards the key is not bound and Size has dropped by one
\* if it was; a Remove of the same key right after a successful one returns
\* false, and a key only comes back through a Bind under that key.
C8_IdempotentRemove ==
    [][ /\ last'.op = "Remove" =>
              /\ last'.ret = IsBound(last'.key)
              /\ last'.key \notin DOMAIN Binds'
              /\ Cardinality(DOMAIN Binds') = Size - (IF last'.ret THEN 1 ELSE 0)
        /\ (last.op = "Remove" /\ last.ret /\ last'.op = "Remove" /\ last'.key = last.key)
              => ~last'.ret
        /\ \A k \in Keys :
              (k \notin DOMAIN Binds /\ k \in DOMAIN Binds') =>
                  (last'.op = "Bind" /\ last'.key = k)
      ]_vars

C8_Witness ==
    /\ last.op = "Remove"
    /\ last.again
    /\ ~last.ret
    /\ Size >= 1

\* C9 -- clear is absolute: when RemoveAll returns CallbackCount() and Size()
\* are 0, and no Raise ever runs the user callback of a closure that was made
\* before that RemoveAll.
C9_ClearIsAbsolute ==
    /\ last.op = "RemoveAll" => (CallbackCount = 0 /\ Size = 0)
    /\ \A i \in 1..Len(log) : log[i].id > cleared

C9_Witness ==
    /\ Returned
    /\ cleared >= 1
    /\ Len(log) >= 1

\* C10 -- Remove frame: Remove through a pointer or a live weak reference
\* takes exactly its key out of the map, leaves the vector of every other key
\* as it was, lowers CallbackCount by the number of callbacks the key had, and
\* no later Raise runs a user callback that a Remove erased.
C10_RemoveFrame ==
    [][ /\ last'.op \in {"Remove", "RemoveWeak"} =>
              LET k == last'.key
                  n == IF k \in DOMAIN Binds THEN Len(Binds[k]) ELSE 0
              IN /\ DOMAIN Binds' = DOMAIN Binds \ {k}
                 /\ \A j \in DOMAIN Binds \ {k} : Binds'[j] = Binds[j]
                 /\ SumLen(Binds', DOMAIN Binds') = CallbackCount - n
                 /\ last'.n = n
        /\ \A i \in 1..Len(log') : log'[i].id \notin removed'
      ]_vars

C10_Witness ==
    /\ last.op = "RemoveWeak"
    /\ last.ret
    /\ last.n >= 2
    /\ raises >= 1

\* C11 -- same arguments for every listener: every user callback a Raise runs,
\* whatever its position in the walk, is handed the value the caller passed
\* to Raise, for by-value parameter types as for by-reference ones.
C11_SameArguments ==
    \A i \in 1..Len(log) : log[i].arg = "v"

\* C12 -- expired reference at bind: Bind / BindOnce through a weak reference
\* whose object is already destroyed registers nothing and is no error: the
\* call returns normally, and Size, CallbackCount and the vector of every key
\* are what they were.
C12_ExpiredBind ==
    [][ \A o \in Objs, once \in BOOLEAN :
            (BindWeak(o, once) /\ o \notin alive) =>
                /\ Binds' = Binds
                /\ Cardinality(DOMAIN Binds') = Size
                /\ SumLen(Binds', DOMAIN Binds') = CallbackCount
                /\ last'.op = "Bind" /\ ~last'.ret
                /\ count' = count
      ]_vars

C12_Witness ==
    /\ last.op = "Bind"
    /\ ~last.ret
    /\ alive = {}
    /\ Size >= 1

\* C13 -- invalid argument: Bind / BindOnce with a null pointer and Remove with
\* a null pointer fail loudly: the assertion stops the process, nothing is
\* registered or removed by the call, and the registry never holds an entry
\* under the null key.
C13_NullRejected ==
    [][ /\ Null \notin DOMAIN Binds'
        /\ ((\E once \in BOOLEAN : BindNull(once)) \/ RemoveNull) =>
              /\ last'.op = "Abort"
              /\ Binds' = Binds
      ]_vars

C13_Witness ==
    /\ last.op = "Abort"
    /\ Size >= 1
    /\ Null \notin DOMAIN Binds

\* the registry holds a weak closure whose object has been destroyed
Stale(B) == {c \in Registered(B) : c.kind = "weak" /\ c.obj \notin alive}

\* C14 -- not-found removal: Remove returns false, is no error and leaves the
\* registry as it was when nothing is bound under the key, and also when it is
\* given a weak reference whose object is already destroyed, even while a
\* stale closure of that object is still registered (the call leaves it there).
C14_NotFoundRemove ==
    [][ /\ \A o \in Objs :
              (Remove(o) /\ addr[o] \notin DOMAIN Binds) =>
                  /\ last'.op = "Remove" /\ ~last'.ret
                  /\ Binds' = Binds
        /\ \A o \in Objs :
              (RemoveWeak(o) /\ (o \notin alive \/ addr[o] \notin DOMAIN Binds)) =>
                  /\ last'.op = "RemoveWeak" /\ ~last'.ret
                  /\ Binds' = Binds
      ]_vars

C14_Witness ==
    /\ last.op = "RemoveWeak"
    /\ ~last.ret
    /\ \E c \in Stale(Binds) : addr[c.obj] \in DOMAIN Binds
    /\ CallbackCount >= 1

\* C15 -- IsBound: IsBound(key) returns true exactly when at least one callback
\* is registered under the key, except that IsBound through a weak reference
\* whose object is destroyed returns false even while a stale closure of that
\* object is still registered.
C15_IsBound ==
    [][ /\ \A o \in Objs :
              CallIsBound(o) => (last'.ret <=> KeyIds(Binds, addr[o]) # {})
        /\ \A o \in Objs :
              CallIsBoundWeak(o) =>
                  (last'.ret <=> (o \in alive /\ KeyIds(Binds, addr[o]) # {}))
      ]_vars

C15_Witness ==
    /\ last.op = "IsBoundWeak"
    /\ ~last.ret
    /\ KeyIds(Binds, last.key) # {}
    /\ Stale(Binds) # {}

\* C18 -- Bind frame: a successful Bind / BindOnce under key k puts exactly one
\* new callback at the end of k's vector, making the vector if k was absent:
\* CallbackCount grows by one, Size grows by one exactly when k was absent,
\* the vectors of the other keys and the callbacks k already had are as they
\* were, so a key collects as many callbacks as are bound under it.
C18_BindFrame ==
    [][ (last'.op = "Bind" /\ last'.ret) =>
            LET k   == last'.key
                old == IF k \in DOMAIN Binds THEN Binds[k] ELSE <<>>
            IN /\ DOMAIN Binds' = DOMAIN Binds \cup {k}
               /\ Len(Binds'[k]) = Len(old) + 1
               /\ SubSeq(Binds'[k], 1, Len(old)) = old
               /\ Binds'[k][Len(old) + 1].id \notin RegIds(Binds) \cup {0}
               /\ \A j \in DOMAIN Binds \ {k} : Binds'[j] = Binds[j]
               /\ SumLen(Binds', DOMAIN Binds') = CallbackCount + 1
               /\ Cardinality(DOMAIN Binds') =
                      Size + (IF k \in DOMAIN Binds THEN 0 ELSE 1)
      ]_vars

C18_Witness ==
    /\ last.op = "Bind"
    /\ last.ret
    /\ Len(Binds[last.key]) >= 2
    /\ Size = 1
    /\ CallbackCount = 2

\* C19 -- queries are read-only: a call of Size(), CallbackCount() or IsBound()
\* leaves the registry exactly as it was, stale closures included (which
\* Size and CallbackCount go on counting); a stale closure only leaves the
\* registry inside a Raise, or through a Remove or RemoveAll.
C19_QueriesReadOnly ==
    [][ /\ ( \/ CallSize
             \/ CallCallbackCount
             \/ \E o \in Objs : CallIsBound(o)
             \/ \E o \in Objs : CallIsBoundWeak(o) ) => Binds' = Binds
        /\ last'.op = "Size" => last'.n = Cardinality(DOMAIN Binds)
        /\ last'.op = "CallbackCount" => last'.n = SumLen(Binds, DOMAIN Binds)
        /\ (\E c \in Stale(Binds) : c \notin Registered(Binds')) =>
              last'.op \in {"Invoke", "Raise", "Remove", "RemoveWeak", "RemoveAll"}
      ]_vars

C19_Witness ==
    /\ last.op = "CallbackCount"
    /\ last.n >= 1
    /\ Cardinality(Stale(Binds)) = last.n
    /\ Size >= 1
    /\ raises >= 1

\* every closure registered when the Raise started reported "keep me": none
\* is a BindOnce closure, and every weak one found its object alive
AllKept == \A c \in snap : ~c.once /\ (c.kind = "weak" => Invoked(c.id) = 1)

\* the vector of key k holds its closures in the order they were bound
InBindOrder(B, k) ==
    /\ \A i \in 1..Len(B[k]) : B[k][i] # Empty
    /\ \A i, j \in 1..Len(B[k]) : i < j => B[k][i].id < B[k][j].id

\* C20 -- Raise is a no-op on the registry when nothing dies: when a Raise in
\* which every visited callback reported "keep me" returns (a Raise with no
\* subscriber included), the registry holds the same keys, and every vector
\* holds the same closures in the same order, as when it started; the Raise
\* is no error.
C20_RaiseKeepsRegistry ==
    /\ Idle => \A k \in DOMAIN Binds : InBindOrder(Binds, k)
    /\ (Returned /\ AllKept) =>
          /\ Registered(Binds) = snap
          /\ DOMAIN Binds = {KeyOf(c) : c \in snap}
          /\ \A c \in snap : \E i \in 1..Len(Binds[KeyOf(c)]) : Binds[KeyOf(c)][i] = c
          /\ Running

C20_Witness ==
    /\ Returned
    /\ AllKept
    /\ Cardinality(snap) = 2
    /\ \E c \in snap : c.kind = "weak"
    /\ Len(log) = 2

\* ids of the closures registered when the Raise started
SnapIds == {c.id : c \in snap}

\* C16 -- removal during Raise: when a user callback calls Remove (of its own
\* key or of another key) or RemoveAll on the event being raised, the Raise
\* still completes with a well-defined result, the registry invariant holds
\* when it returns, and a closure removed before a Raise started is not run
\* by that Raise.
C16_RemoveDuringRaise ==
    /\ last.op # "UseAfterFree"
    /\ Returned =>
          /\ \A k \in DOMAIN Binds : Binds[k] # <<>>
          /\ \A c \in Registered(Binds) : KeyOf(c) \in DOMAIN Binds
    /\ \A i \in 1..Len(log) : log[i].id \in removed => log[i].id \in SnapIds

\* C17 -- binding during Raise: when a user callback calls Bind or BindOnce on
\* the event being raised (under its own key or a new key), the Raise still
\* completes with a well-defined result, no closure, new or old, is run twice
\* in the pass, a new repeating closure that ran is registered when the Raise
\* returns, and no closure that was registered before and reported "keep me"
\* is lost.
C17_BindDuringRaise ==
    /\ last.op # "InvalidIterator"
    /\ \A i \in 1..Len(log) : Invoked(log[i].id) <= 1
    /\ Returned =>
          /\ \A c \in Registered(Binds) :
                c.id \notin SnapIds => Invoked(c.id) <= 1
          /\ \A c \in snap :
                (~c.once /\ c.id \notin removed /\ c.id > cleared
                   /\ (c.kind = "weak" => Invoked(c.id) = 1)) =>
                      c \in Registered(Binds)

\* the closure reported "keep me" in the Raise the log is about
Kept(c) == ~c.once /\ (c.kind = "weak" => Invoked(c.id) = 1)

C22_NestedRaise ==
    /\ \A id \in 1..Len(count) : count[id] <= 1
    /\ last.op \notin {"UseAfterFree", "InvalidIterator", "BadFunctionCall"}

\* the closures bound without an object
Free(S) == {c \in S : c.kind = "free"}

\* C23 -- shared sentinel key: every subscription made without an object is
\* stored under the one key StandaloneCallbackKey, so with n >= 1 of them and
\* nothing else registered Size() is 1 and CallbackCount() is n; a Raise runs
\* them in bind order, and it removes a BindOnce one alone: the key stays
\* while another object-less subscription is left.
C23_SentinelKey ==
    /\ \A k \in DOMAIN Binds : \A i \in 1..Len(Binds[k]) :
          Binds[k][i].kind = "free" <=> (k = StandaloneCallbackKey /\ Binds[k][i] # Empty)
    /\ (Idle /\ Registered(Binds) # {} /\ Free(Registered(Binds)) = Registered(Binds)) =>
          /\ Size = 1
          /\ CallbackCount = Cardinality(Registered(Binds))
    /\ \A i, j \in 1..Len(log) :
          (i < j /\ log[i].kind = "free" /\ log[j].kind = "free") => log[i].id < log[j].id
    /\ Returned =>
          /\ \A c \in Free(snap) : Invoked(c.id) = 1
          /\ Free(Registered(Binds)) = {c \in Free(snap) : ~c.once}
          /\ (\E c \in Free(snap) : ~c.once) => StandaloneCallbackKey \in DOMAIN Binds

C23_Witness ==
    /\ Returned
    /\ Free(snap) = snap
    /\ Cardinality(snap) = 2
    /\ \E c \in snap : c.once
    /\ Size = 1
    /\ CallbackCount = 1
    /\ Len(log) = 2

\* the closures made for object o, through a pointer or a weak / shared_ptr
Of(B, o) == {c \in Registered(B) : c.kind \in {"raw", "weak"} /\ c.obj = o}

\* C24 -- one key space for owning and weak bindings: the subscriptions made
\* for one live object through a pointer, a shared_ptr or a weak_ptr are all
\* stored under the object's address, so Size counts the object once, IsBound
\* by pointer and by weak / shared_ptr agree, and Remove by any form erases all
\* of the object's subscriptions.
C24_OneKeySpace ==
    [][ /\ \A k \in DOMAIN Binds' : \A i \in 1..Len(Binds'[k]) :
              Binds'[k][i].kind \in {"raw", "weak"} => k = addr'[Binds'[k][i].obj]
        /\ \A o \in alive :
              /\ CallIsBound(o) => (last'.ret <=> IsBoundWeak(o))
              /\ CallIsBoundWeak(o) => (last'.ret <=> IsBound(addr[o]))
              /\ (Remove(o) \/ RemoveWeak(o)) =>
                    /\ Of(Binds', o) = {}
                    /\ last'.ret <=> KeyIds(Binds, addr[o]) # {}
                    /\ Cardinality(DOMAIN Binds') = Size - (IF last'.ret THEN 1 ELSE 0)
      ]_vars

C24_Witness ==
    /\ last.op = "IsBoundWeak"
    /\ last.ret
    /\ \E o \in alive : \E c, d \in Of(Binds, o) : c.kind = "raw" /\ d.kind = "weak"
    /\ Size = 1
    /\ CallbackCount = 2

\* C25 -- lazy cleanup window: from the destruction of an object bound through
\* a weak reference until the next Raise or RemoveAll its stale closure stays
\* registered and is counted by Size() and CallbackCount(); only a Raise or a
\* RemoveAll takes it out.
C25_LazyCleanup ==
    [][ /\ \A c \in Stale(Binds) :
              c \notin Registered(Binds') => last'.op \in {"Invoke", "Raise", "RemoveAll"}
        /\ (stack' = <<>> /\ Stale(Binds') # {}) =>
              /\ Cardinality(DOMAIN Binds') >= 1
              /\ SumLen(Binds', DOMAIN Binds') >= Cardinality(Stale(Binds'))
      ]_vars

\* C26 -- identity is not confused across objects: between operations, a live
\* object whose address is bound has a subscription of its own, the closures
\* under one key all belong to one object, and a Remove for a live object
\* that returns true erases closures of that object only, also when the
\* object was created at the address of a destroyed one.
C26_Identity ==
    [][ /\ stack' = <<>> =>
              /\ \A o \in alive' :
                    addr'[o] \in DOMAIN Binds' => Of(Binds', o) # {}
              /\ \A c, d \in Registered(Binds') :
                    (c.kind # "free" /\ d.kind # "free" /\ addr'[c.obj] = addr'[d.obj])
                        => c.obj = d.obj
        /\ \A o \in alive :
              ((Remove(o) \/ RemoveWeak(o)) /\ last'.ret) =>
                  /\ Of(Binds, o) # {}
                  /\ \A c \in Registered(Binds) \ Registered(Binds') : c.obj = o
      ]_vars

====
